---- MODULE Spec2Model ----
(***************************************************************************)
(* Telemetry ingestion relay: the two handlers of the repository.          *)
(*   "node" : telemetry_node/src/main.rs  (static shared-secret, NodeError)*)
(*   "jwt"  : src/main.rs                 (signed bearer token, StatusCode)*)
(* A request is an axum handler invocation: the extractors of the handler  *)
(* signature run first, in argument order, then the handler body up to its *)
(* first await (pool.get), then the publish call and its completion.       *)
(***************************************************************************)
EXTENDS Integers, Sequences, FiniteSets, TLC

\* ---------------------------------------------------------------- bounds
MaxReq == 2          \* requests handled (concurrently) in one behaviour
PoolSize == 1        \* connections of the pool (scaled down from 32 / 100)
MaxCoord == 181      \* largest |lat|,|lon| drawn as input

\* ------------------------------------------------------------ Option<T>
None == <<>>
Some(x) == <<x>>
IsSome(o) == Len(o) = 1
Unwrap(o) == o[1]

\* ------------------------------------------------ strings as char tuples
SP == " "
NonAscii == "\\xFF"     \* one byte outside visible ASCII
BearerPrefix == <<"B", "e", "a", "r", "e", "r", " ">>
S_s == <<"s">>
S_x == <<"x">>

\* HeaderValue::to_str : fails when a byte is not visible ASCII
ToStr(v) == IF \E i \in 1..Len(v) : v[i] = NonAscii THEN None ELSE Some(v)

\* str::strip_prefix
StripPrefix(s, p) ==
    IF Len(s) >= Len(p) /\ SubSeq(s, 1, Len(p)) = p
    THEN Some(SubSeq(s, Len(p) + 1, Len(s)))
    ELSE None

RECURSIVE TrimStart(_)
TrimStart(s) == IF s # <<>> /\ Head(s) = SP THEN TrimStart(Tail(s)) ELSE s

RECURSIVE TrimEnd(_)
TrimEnd(s) ==
    IF s # <<>> /\ s[Len(s)] = SP THEN TrimEnd(SubSeq(s, 1, Len(s) - 1)) ELSE s

\* str::trim
Trim(s) == TrimEnd(TrimStart(s))

\* Option::and_then / Option::map / Option::or_else on the header chain
AndThenToStr(o) == IF IsSome(o) THEN ToStr(Unwrap(o)) ELSE None
AndThenStripBearer(o) == IF IsSome(o) THEN StripPrefix(Unwrap(o), BearerPrefix) ELSE None
MapTrim(o) == IF IsSome(o) THEN Some(Trim(Unwrap(o))) ELSE None
OrElse(o, alt) == IF IsSome(o) THEN o ELSE alt

\* Provided without the two trims
ProvidedUntrimmed(headers) ==
    OrElse(AndThenStripBearer(AndThenToStr(headers.authorization)),
           AndThenToStr(headers.x_node_token))

\* the credential authorize() compares with the expected token
Provided(headers) ==
    OrElse(MapTrim(AndThenStripBearer(AndThenToStr(headers.authorization))),
           MapTrim(AndThenToStr(headers.x_node_token)))

\* authorize(headers, expected_token) : TRUE for Ok(()), FALSE for Err(Unauthorized)
authorize(headers, expected_token) ==
    IF ~IsSome(expected_token) THEN TRUE
    ELSE LET provided == Provided(headers)
         IN  IsSome(provided) /\ Unwrap(provided) = Unwrap(expected_token)

\* main(): std::env::var("NODE_TOKEN").ok().filter(|v| !v.trim().is_empty())
NodeTokenFromEnv(env) ==
    IF IsSome(env) /\ Trim(Unwrap(env)) # <<>> THEN env ELSE None

\* validate_bearer_token(token, secret): HS256 signature under the secret,
\* well-formed claims, expiration not elapsed
validate_bearer_token(token, secret) ==
    /\ token.wf
    /\ token.alg = "HS256"
    /\ token.key = secret
    /\ ~token.expired

VARIABLES variant, node_token, jwt_secret, redis_pool, req, call

vars == <<variant, node_token, jwt_secret, redis_pool, req, call>>

\* process-lifetime configuration, plus the scratch variable of the
\* function-level specifications
fixed == <<variant, node_token, jwt_secret, call>>

\* ------------------------------------------------------------------ f64
F(n) == [cls |-> "finite", v |-> n]
is_finite(x) == x.cls = "finite"
\* RangeInclusive::contains on f64 (false for NaN and the infinities)
contains(lo, hi, x) == x.cls = "finite" /\ lo <= x.v /\ x.v <= hi

\* ------------------------------------------------- serde_json::to_string
DigitChar == <<"0", "1", "2", "3", "4", "5", "6", "7", "8", "9">>

RECURSIVE Digits(_)
Digits(n) == IF n < 10 THEN <<DigitChar[n + 1]>>
             ELSE Digits(n \div 10) \o <<DigitChar[(n % 10) + 1]>>

EscapeChar(c) == IF c = "\"" THEN <<"\\", "\"">>
                 ELSE IF c = "\\" THEN <<"\\", "\\">>
                 ELSE <<c>>

RECURSIVE Escape(_)
Escape(s) == IF s = <<>> THEN <<>> ELSE EscapeChar(Head(s)) \o Escape(Tail(s))

SerStr(s) == <<"\"">> \o Escape(s) \o <<"\"">>

\* SerF64 losing the sign
SerF64Unsigned(x) == IF ~is_finite(x) THEN <<"null">>
                     ELSE Digits(IF x.v < 0 THEN -x.v ELSE x.v) \o <<".", "0">>

\* a finite f64 prints with a fraction ("90.0"); a non-finite one as null
SerF64(x) == IF ~is_finite(x) THEN <<"null">>
             ELSE (IF x.v < 0 THEN <<"-">> ELSE <<>>)
                  \o Digits(IF x.v < 0 THEN -x.v ELSE x.v) \o <<".", "0">>

SerOptF64(o) == IF IsSome(o) THEN SerF64(Unwrap(o)) ELSE <<"null">>
SerOptStr(o) == IF IsSome(o) THEN SerStr(Unwrap(o)) ELSE <<"null">>

\* #[derive(Serialize)] struct TelemetryPayload, fields in declaration order
SerTelemetryPayload(p) ==
    <<"{", "\"user_id\":">> \o SerStr(p.user_id)
    \o <<",", "\"lat\":">> \o SerF64(p.lat)
    \o <<",", "\"lon\":">> \o SerF64(p.lon)
    \o <<",", "\"accuracy_m\":">> \o SerOptF64(p.accuracy_m)
    \o <<",", "\"unit_label\":">> \o SerOptStr(p.unit_label)
    \o <<"}">>

EventName == <<"duty_location_update">>
Channel == "map_updates"

\* WsMessage { event: "duty_location_update".to_string(), data: payload }
WsMessage(payload) == [event |-> EventName, data |-> payload]

\* #[derive(Serialize)] struct WsMessage through serde_json::to_string
to_string(ws_msg) ==
    <<"{", "\"event\":">> \o SerStr(ws_msg.event)
    \o <<",", "\"data\":">> \o SerTelemetryPayload(ws_msg.data)
    \o <<"}">>

\* -------------------------------------------- NodeError and its response
RedisError(msg) == [kind |-> "RedisError", msg |-> msg]
Unauthorized == [kind |-> "Unauthorized", msg |-> ""]
InvalidPayload(msg) == [kind |-> "InvalidPayload", msg |-> msg]
Internal(msg) == [kind |-> "Internal", msg |-> msg]

\* into_response with the Internal arm copied from the RedisError arm
IntoResponseCopiedArm(e) ==
    CASE e.kind = "RedisError" ->
           [status |-> 500, error |-> "redis_error", message |-> e.msg]
      [] e.kind = "Unauthorized" ->
           [status |-> 401, error |-> "unauthorized", message |-> "Unauthorized"]
      [] e.kind = "InvalidPayload" ->
           [status |-> 400, error |-> "invalid_payload", message |-> e.msg]
      [] e.kind = "Internal" ->
           [status |-> 500, error |-> "redis_error", message |-> e.msg]

\* impl IntoResponse for NodeError: (status, {"error": code, "message": message})
into_response(e) ==
    CASE e.kind = "RedisError" ->
           [status |-> 500, error |-> "redis_error", message |-> e.msg]
      [] e.kind = "Unauthorized" ->
           [status |-> 401, error |-> "unauthorized", message |-> "Unauthorized"]
      [] e.kind = "InvalidPayload" ->
           [status |-> 400, error |-> "invalid_payload", message |-> e.msg]
      [] e.kind = "Internal" ->
           [status |-> 500, error |-> "internal_error", message |-> e.msg]

\* a bare StatusCode, or a framework rejection: no JSON error body
Bare(status) == [status |-> status, error |-> "", message |-> ""]
OkResponse == [status |-> 200, error |-> "", message |-> "OK"]

\* axum Json<T> rejection: syntax error 400, data (shape) error 422
JsonRejection(form) == Bare(IF form = "syntax" THEN 400 ELSE 422)
\* axum_extra TypedHeader<Authorization<Bearer>> rejection: missing or undecodable header
TypedHeaderRejection == Bare(400)

\* ---------------------------------------------------------------- inputs
\* NODE_TOKEN as found in the environment: unset, blank, or a secret
NodeTokenEnv == {None, Some(<<SP>>), Some(S_s)}
JwtSecret == "k"

Bearer(tok) == BearerPrefix \o tok

\* request headers seen by the shared-secret handler
NodeHeaders ==
    { [authorization |-> None, x_node_token |-> None],
      [authorization |-> Some(Bearer(S_s)), x_node_token |-> None],
      [authorization |-> Some(Bearer(S_x)), x_node_token |-> Some(S_s)] }

Token(key, expired) == [wf |-> TRUE, alg |-> "HS256", key |-> key, expired |-> expired]
NoToken == [wf |-> FALSE, alg |-> "", key |-> "", expired |-> FALSE]

\* Authorization header seen by the signed-token handler
JwtHeaders ==
    { [scheme |-> "absent", token |-> NoToken],
      [scheme |-> "Basic", token |-> NoToken],
      [scheme |-> "Bearer", token |-> Token(JwtSecret, FALSE)],
      [scheme |-> "Bearer", token |-> Token(JwtSecret, TRUE)],
      [scheme |-> "Bearer", token |-> Token("z", FALSE)] }

Payload(user_id, lat, lon, accuracy_m, unit_label) ==
    [user_id |-> user_id, lat |-> F(lat), lon |-> F(lon),
     accuracy_m |-> accuracy_m, unit_label |-> unit_label]

UserIds == { <<>>, <<"u", "\"">> }
Coords == { <<90, -180>>, <<MaxCoord - 90, 0>>, <<0, -MaxCoord>> }
Extras == { <<None, None>>, <<Some(F(5)), Some(<<"\\", "b">>)>> }

\* what Json<TelemetryPayload> can deliver: finite numbers only
TelemetryPayloads ==
    { Payload(u, c[1], c[2], x[1], x[2]) : u \in UserIds, c \in Coords, x \in Extras }

NoPayload == Payload(<<>>, 0, 0, None, None)

\* request bodies: not JSON, JSON of the wrong shape, or a TelemetryPayload
Bodies ==
    { [form |-> "syntax", p |-> NoPayload], [form |-> "data", p |-> NoPayload] }
    \cup { [form |-> "json", p |-> p] : p \in TelemetryPayloads }

\* ----------------------------------------------------------------- state
Requests == 1..MaxReq

IdleReq == [pc |-> "idle", headers |-> None, body |-> [form |-> "syntax", p |-> NoPayload],
            fail |-> "", resp |-> Bare(0), msg_str |-> <<>>,
            pubs |-> 0, chan |-> "", sent |-> <<>>]

NoCall == [done |-> FALSE]

\* cfg.timeouts.wait: Some(2 s) in telemetry_node, unset in the signed-token node
WaitTimeout == variant = "node"

Init ==
    /\ \/ /\ variant = "node"
          /\ \E env \in NodeTokenEnv : node_token = NodeTokenFromEnv(env)
          /\ jwt_secret = ""
       \/ /\ variant = "jwt"
          /\ node_token = None
          /\ jwt_secret = JwtSecret
    /\ redis_pool = PoolSize
    /\ req = [r \in Requests |-> IdleReq]
    /\ call = NoCall

Done(fail, resp) == [pc |-> "done", fail |-> fail, resp |-> resp, msg_str |-> <<>>]
Go(msg_str) == [pc |-> "acquire", fail |-> "", resp |-> Bare(0), msg_str |-> msg_str]

\* telemetry_node handle_telemetry up to its first await
NodeSync(headers, body, ser_ok) ==
    IF body.form # "json" THEN Done("JsonRejection", JsonRejection(body.form))
    ELSE IF ~authorize(headers, node_token)
         THEN Done("Unauthorized", into_response(Unauthorized))
    ELSE IF ~is_finite(body.p.lat) \/ ~is_finite(body.p.lon)
         THEN Done("InvalidPayload",
                   into_response(InvalidPayload("Coordinates must be finite numbers")))
    ELSE IF ~contains(-90, 90, body.p.lat) \/ ~contains(-180, 180, body.p.lon)
         THEN Done("InvalidPayload", into_response(InvalidPayload("lat/lon out of range")))
    ELSE IF ~ser_ok
         THEN Done("Serialize", into_response(InvalidPayload("serialization failed")))
    ELSE Go(to_string(WsMessage(body.p)))

\* signed-token handle_telemetry up to its first await
JwtSync(headers, body) ==
    IF headers.scheme # "Bearer" THEN Done("HeaderRejection", TypedHeaderRejection)
    ELSE IF body.form # "json" THEN Done("JsonRejection", JsonRejection(body.form))
    ELSE IF ~validate_bearer_token(headers.token, jwt_secret)
         THEN Done("Unauthorized", Bare(401))
    ELSE Go(<<>>)

Step(r, headers, body, out) ==
    req' = [req EXCEPT ![r] = [@ EXCEPT !.pc = out.pc, !.headers = headers, !.body = body,
                                        !.fail = out.fail, !.resp = out.resp,
                                        !.msg_str = out.msg_str]]

\* a request arrives: extractors, then the handler body up to pool.get()
Receive(r) ==
    /\ req[r].pc = "idle"
    /\ \/ /\ variant = "node"
          /\ \E headers \in NodeHeaders, body \in Bodies, ser_ok \in BOOLEAN :
                Step(r, headers, body, NodeSync(headers, body, ser_ok))
       \/ /\ variant = "jwt"
          /\ \E headers \in JwtHeaders, body \in Bodies :
                Step(r, headers, body, JwtSync(headers, body))
    /\ UNCHANGED <<fixed, redis_pool>>

\* Publish issuing the call a second time
PublishTwice(q, msg_str) ==
    [q EXCEPT !.pc = "publish", !.pubs = @ + 2,
              !.chan = Channel, !.sent = msg_str, !.msg_str = <<>>]

\* con.publish("map_updates", msg_str) is issued on the acquired connection
Publish(q, msg_str) ==
    [q EXCEPT !.pc = "publish", !.pubs = @ + 1,
              !.chan = Channel, !.sent = msg_str, !.msg_str = <<>>]

Fail(q, fail, resp) == [q EXCEPT !.pc = "done", !.fail = fail, !.resp = resp, !.msg_str = <<>>]

\* redis_pool.get() returns a connection
PoolGetOk(r) ==
    /\ req[r].pc = "acquire"
    /\ redis_pool > 0
    /\ \/ /\ variant = "node"
          /\ redis_pool' = redis_pool - 1
          /\ req' = [req EXCEPT ![r] = Publish(@, @.msg_str)]
       \/ /\ variant = "jwt"
          /\ \E ser_ok \in BOOLEAN :
                IF ser_ok
                THEN /\ redis_pool' = redis_pool - 1
                     /\ req' = [req EXCEPT ![r] = Publish(@, to_string(WsMessage(@.body.p)))]
                ELSE /\ redis_pool' = redis_pool
                     /\ req' = [req EXCEPT ![r] = Fail(@, "Serialize", Bare(500))]
    /\ UNCHANGED fixed

\* redis_pool.get() fails: the connection cannot be created or recycled, or
\* no slot came free within the configured wait
PoolGetErr(r) ==
    /\ req[r].pc = "acquire"
    /\ redis_pool > 0 \/ WaitTimeout
    /\ req' = [req EXCEPT ![r] =
                 Fail(@, "PoolGet",
                      IF variant = "node" THEN into_response(RedisError("pool get failed"))
                      ELSE Bare(500))]
    /\ UNCHANGED <<fixed, redis_pool>>

\* the broker acknowledges the publish; the connection returns to the pool
PublishOk(r) ==
    /\ req[r].pc = "publish"
    /\ redis_pool' = redis_pool + 1
    /\ req' = [req EXCEPT ![r] = [@ EXCEPT !.pc = "done", !.resp = OkResponse]]
    /\ UNCHANGED fixed

\* the publish call returns a transport error; the connection is dropped
PublishErr(r) ==
    /\ req[r].pc = "publish"
    /\ redis_pool' = redis_pool + 1
    /\ req' = [req EXCEPT ![r] =
                 Fail(@, "Publish",
                      IF variant = "node" THEN into_response(RedisError("publish failed"))
                      ELSE Bare(500))]
    /\ UNCHANGED fixed

Next ==
    \E r \in Requests :
       \/ Receive(r)
       \/ PoolGetOk(r)
       \/ PoolGetErr(r)
       \/ PublishOk(r)
       \/ PublishErr(r)

Spec == Init /\ [][Next]_vars

\* pool.get() returns or times out; the broker owes no answer to a publish
Fairness == \A r \in Requests : WF_vars(PoolGetOk(r) \/ PoolGetErr(r))

LiveSpec == Init /\ [][Next]_vars /\ Fairness

TypeOK ==
    /\ redis_pool \in 0..PoolSize
    /\ \A r \in Requests : req[r].pc \in {"idle", "acquire", "publish", "done"}

\* ------------------------------------------- authorize() on its own
AuthorizationValues ==
    { None, Some(Bearer(S_s)), Some(Bearer(S_x)), Some(Bearer(<<SP>> \o S_s)),
      Some(S_s), Some(Bearer(<<NonAscii>>)) }
XNodeTokenValues == { None, Some(S_s), Some(S_x), Some(<<NonAscii>>) }
HeaderMaps ==
    { [authorization |-> a, x_node_token |-> x] :
        a \in AuthorizationValues, x \in XNodeTokenValues }
NodeTokenEnvAll == NodeTokenEnv \cup { Some(<<>>), Some(<<SP>> \o S_s) }

InitAuthorize ==
    /\ variant = "node"
    /\ \E env \in NodeTokenEnvAll : node_token = NodeTokenFromEnv(env)
    /\ jwt_secret = ""
    /\ redis_pool = PoolSize
    /\ req = [r \in Requests |-> IdleReq]
    /\ \E h \in HeaderMaps : call = [done |-> FALSE, headers |-> h, ok |-> FALSE]

\* authorize(&headers, state.node_token.as_deref()) as the handler calls it
CallAuthorize ==
    /\ ~call.done
    /\ call' = [call EXCEPT !.done = TRUE, !.ok = authorize(call.headers, node_token)]
    /\ UNCHANGED <<variant, node_token, jwt_secret, redis_pool, req>>

NextAuthorize == CallAuthorize

SpecAuthorize == InitAuthorize /\ [][NextAuthorize]_vars

\* ------------------------------------- NodeError::into_response on its own
Messages == { "", "pool get failed", "lat/lon out of range" }
NodeErrors ==
    { Unauthorized }
    \cup { RedisError(m) : m \in Messages }
    \cup { InvalidPayload(m) : m \in Messages }
    \cup { Internal(m) : m \in Messages }

InitIntoResponse ==
    /\ variant = "node"
    /\ node_token = None
    /\ jwt_secret = ""
    /\ redis_pool = PoolSize
    /\ req = [r \in Requests |-> IdleReq]
    /\ \E e1 \in NodeErrors, e2 \in NodeErrors :
          call = [done |-> FALSE, e1 |-> e1, e2 |-> e2, r1 |-> Bare(0), r2 |-> Bare(0)]

\* two errors are turned into responses
CallIntoResponse ==
    /\ ~call.done
    /\ call' = [call EXCEPT !.done = TRUE, !.r1 = into_response(call.e1),
                            !.r2 = into_response(call.e2)]
    /\ UNCHANGED <<variant, node_token, jwt_secret, redis_pool, req>>

NextIntoResponse == CallIntoResponse

SpecIntoResponse == InitIntoResponse /\ [][NextIntoResponse]_vars

\* ======================================================================
\* Properties
\* ======================================================================

\* ------------------------------------------- reading a published message
\* (the consumer's side: serde_json::from_str of the envelope)
RECURSIVE ReadStr(_, _, _)
ReadStr(s, i, acc) ==
    IF s[i] = "\"" THEN [val |-> acc, next |-> i + 1]
    ELSE IF s[i] = "\\" THEN ReadStr(s, i + 2, Append(acc, s[i + 1]))
    ELSE ReadStr(s, i + 1, Append(acc, s[i]))

ParseStr(s, i) == ReadStr(s, i + 1, <<>>)

IsDigit(c) == \E d \in 1..10 : DigitChar[d] = c
DigitVal(c) == (CHOOSE d \in 1..10 : DigitChar[d] = c) - 1

RECURSIVE ReadInt(_, _, _)
ReadInt(s, i, acc) ==
    IF i <= Len(s) /\ IsDigit(s[i]) THEN ReadInt(s, i + 1, acc * 10 + DigitVal(s[i]))
    ELSE [val |-> acc, next |-> i]

ParseF64(s, i) ==
    LET neg == s[i] = "-"
        n == ReadInt(s, IF neg THEN i + 1 ELSE i, 0)
    IN  [val |-> F(IF neg THEN -n.val ELSE n.val), next |-> n.next + 2]

ParseOptF64(s, i) ==
    IF s[i] = "null" THEN [val |-> None, next |-> i + 1]
    ELSE LET x == ParseF64(s, i) IN [val |-> Some(x.val), next |-> x.next]

ParseOptStr(s, i) ==
    IF s[i] = "null" THEN [val |-> None, next |-> i + 1]
    ELSE LET x == ParseStr(s, i) IN [val |-> Some(x.val), next |-> x.next]

\* {"event":<str>,"data":{"user_id":<str>,"lat":<num>,"lon":<num>,
\*  "accuracy_m":<num|null>,"unit_label":<str|null>}}
from_str(s) ==
    LET ev == ParseStr(s, 3)
        uid == ParseStr(s, ev.next + 4)
        lat == ParseF64(s, uid.next + 2)
        lon == ParseF64(s, lat.next + 2)
        acc == ParseOptF64(s, lon.next + 2)
        lbl == ParseOptStr(s, acc.next + 2)
    IN  [event |-> ev.val,
         keys |-> <<s[2], s[ev.next + 1], s[ev.next + 3], s[uid.next + 1],
                    s[lat.next + 1], s[lon.next + 1], s[acc.next + 1]>>,
         data |-> [user_id |-> uid.val, lat |-> lat.val, lon |-> lon.val,
                   accuracy_m |-> acc.val, unit_label |-> lbl.val]]

EnvelopeKeys == <<"\"event\":", "\"data\":", "\"user_id\":", "\"lat\":", "\"lon\":",
                  "\"accuracy_m\":", "\"unit_label\":">>

\* --------------------------------------------- vocabulary of the claims
SecretConfigured == variant = "jwt" \/ IsSome(node_token)

\* the request carries the configured secret in neither header (shared
\* secret), or no bearer token that verifies (signed token)
LacksCredential(q) ==
    IF variant = "node"
    THEN /\ q.headers.authorization # Some(Bearer(Unwrap(node_token)))
         /\ q.headers.x_node_token # node_token
    ELSE \/ q.headers.scheme # "Bearer"
         \/ q.headers.token # Token(jwt_secret, FALSE)

BadCoords(p) ==
    \/ p.lat.cls # "finite" \/ p.lon.cls # "finite"
    \/ p.lat.v < -90 \/ p.lat.v > 90
    \/ p.lon.v < -180 \/ p.lon.v > 180

\* the request got past the extractors, authorization and payload validation
Passed(q) ==
    /\ q.pc # "idle"
    /\ q.fail \notin {"HeaderRejection", "JsonRejection", "Unauthorized", "InvalidPayload"}

\* C1: with a secret or key configured, a request without a valid credential
\* is answered 401 and causes no publish call, whatever its body is.
C1_UnauthorizedIs401 ==
    \A r \in Requests :
       (req[r].pc # "idle" /\ SecretConfigured /\ LacksCredential(req[r]))
          => /\ req[r].pubs = 0
             /\ req[r].pc = "done" => req[r].resp.status = 401

\* C2: a request (not turned away as unauthorized, its envelope serializable)
\* whose lat or lon is non-finite or out of range is answered 400 and causes
\* no publish call.
C2_BadCoordsIs400 ==
    \A r \in Requests :
       (req[r].pc # "idle" /\ req[r].body.form = "json" /\ BadCoords(req[r].body.p)
          /\ req[r].resp.status # 401
          /\ req[r].fail \notin {"HeaderRejection", "Serialize"})
          => /\ req[r].pubs = 0
             /\ req[r].pc = "done" => req[r].resp.status = 400

\* C3 as claimed: every request that passes authorization and validation
\* has made exactly one publish call by the time it is answered.
C3_ExactlyOnePublish ==
    \A r \in Requests :
       (req[r].pc = "done" /\ Passed(req[r])) => req[r].pubs = 1

\* C3 amended: a request never makes more than one publish call; it makes
\* exactly one if and only if it passed authorization and validation,
\* serialized its envelope and obtained a connection (it then ends with 200
\* or with the publish error, without a retry); requests count separately.
C3_AtMostOnePublish ==
    /\ \A r \in Requests :
          /\ req[r].pubs <= 1
          /\ req[r].pc \in {"idle", "acquire"} => req[r].pubs = 0
          /\ req[r].pc = "publish" => req[r].pubs = 1
          /\ req[r].pc = "done" =>
                (req[r].pubs = 1 <=> (req[r].resp.status = 200 \/ req[r].fail = "Publish"))
          /\ req[r].pc = "done" /\ req[r].fail \in {"PoolGet", "Serialize"} => req[r].pubs = 0
          /\ ~Passed(req[r]) => req[r].pubs = 0
    /\ \A r1, r2 \in Requests :
          (r1 # r2 /\ req[r1].resp.status = 200 /\ req[r2].resp.status = 200)
             => req[r1].pubs + req[r2].pubs = 2

\* two identical requests were both answered 200, one publish call each
C3_Witness ==
    \E r1, r2 \in Requests :
       /\ r1 # r2
       /\ req[r1].headers = req[r2].headers /\ req[r1].body = req[r2].body
       /\ req[r1].resp.status = 200 /\ req[r2].resp.status = 200
       /\ req[r1].pubs = 1 /\ req[r2].pubs = 1

\* C4: every published message goes to map_updates and reads back as the
\* envelope {event: "duty_location_update", data: the received report}.
C4_EnvelopeRoundTrip ==
    \A r \in Requests :
       req[r].pubs > 0 =>
          LET envelope == from_str(req[r].sent)
          IN  /\ req[r].chan = "map_updates"
              /\ envelope.event = <<"duty_location_update">>
              /\ envelope.keys = EnvelopeKeys
              /\ envelope.data = req[r].body.p

\* a report with a negative coordinate, an escaped character and both
\* optional fields was published; so was one with both optional fields absent
C4_Witness ==
    /\ \E r \in Requests :
          /\ req[r].pubs > 0
          /\ req[r].body.p.lon.v < 0
          /\ req[r].body.p.user_id = <<"u", "\"">>
          /\ IsSome(req[r].body.p.unit_label)
    /\ \E r \in Requests :
          req[r].pubs > 0 /\ ~IsSome(req[r].body.p.accuracy_m)

BrokerCodes == {"redis_error"}

\* C5: a failed pool acquisition or publish call ends in a 5xx response
\* whose error code names the broker; 200 only follows a successful publish.
C5_BrokerFailureReported ==
    \A r \in Requests :
       /\ (req[r].pc = "done" /\ req[r].fail \in {"PoolGet", "Publish"})
             => /\ req[r].resp.status \in 500..599
                /\ req[r].resp.error \in BrokerCodes
       /\ req[r].resp.status = 200 => (req[r].pubs = 1 /\ req[r].fail = "")

HasBearer(h) ==
    /\ IsSome(h.authorization)
    /\ \A i \in 1..Len(h.authorization[1]) : h.authorization[1][i] # NonAscii
    /\ Len(h.authorization[1]) >= 7
    /\ SubSeq(h.authorization[1], 1, 7) = <<"B", "e", "a", "r", "e", "r", " ">>

Readable(v) == \A i \in 1..Len(v) : v[i] # NonAscii

\* C6 as claimed: accepted iff no secret is configured, or the secret is
\* presented, exactly, as the bearer credential or as x-node-token.
C6_EitherHeaderExact ==
    call.done =>
       (call.ok <=>
          \/ node_token = None
          \/ call.headers.authorization = Some(<<"B", "e", "a", "r", "e", "r", " ">> \o node_token[1])
          \/ call.headers.x_node_token = node_token)

\* C6 amended: accepted iff no secret is configured (NODE_TOKEN unset or
\* blank), or the one credential the request is judged by equals the secret:
\* the rest of a readable Authorization header that starts with "Bearer ",
\* surrounding whitespace removed; only when there is no such header, the
\* readable x-node-token header, surrounding whitespace removed.
C6_SelectedCredential ==
    call.done =>
       (call.ok <=>
          \/ node_token = None
          \/ /\ HasBearer(call.headers)
             /\ Trim(SubSeq(call.headers.authorization[1], 8,
                            Len(call.headers.authorization[1]))) = node_token[1]
          \/ /\ ~HasBearer(call.headers)
             /\ IsSome(call.headers.x_node_token)
             /\ Readable(call.headers.x_node_token[1])
             /\ Trim(call.headers.x_node_token[1]) = node_token[1])

\* with a secret configured, a request was accepted on x-node-token behind
\* a non-bearer Authorization header
C6_Witness ==
    /\ call.done /\ call.ok
    /\ IsSome(node_token)
    /\ IsSome(call.headers.authorization)
    /\ ~HasBearer(call.headers)
    /\ call.headers.x_node_token = node_token

\* C7: a request waiting for a pooled connection always leaves the wait.
C7_BoundedWait ==
    \A r \in Requests : (req[r].pc = "acquire") ~> (req[r].pc \in {"publish", "done"})

\* C8: a serialization failure is answered 500 internal_error, and nothing
\* is published.
C8_SerializeIsInternal ==
    \A r \in Requests :
       req[r].fail = "Serialize"
          => /\ req[r].resp.status = 500
             /\ req[r].resp.error = "internal_error"
             /\ req[r].pubs = 0

\* C9: no report that breaks a rule of the data model is published; in
\* particular none with an empty user_id.
C9_NoInvalidReportForwarded ==
    \A r \in Requests :
       req[r].pubs > 0 => req[r].body.p.user_id # <<>>

====
